---------------------------- MODULE Spec2Model ----------------------------
(***************************************************************************)
(* State-machine model of the terminal game engine (src/src/lib.rs,        *)
(* src/src/entity.rs): the entity store, the collision/update pass with    *)
(* bounds-checked rollback, the prune, the render bounds test, and the     *)
(* input thread that publishes the latest Input through a mutex.           *)
(***************************************************************************)
EXTENDS Integers, Sequences, FiniteSets, TLC

VARIABLES
    term,       \* terminal size reported by terminal.size(): [width, height]
    build,      \* "debug": integer overflow panics; "release": it wraps
    keys,       \* raw events the keyboard can still deliver to read_input
    faults,     \* the I/O calls that may fail in this run
    fpsArgs,    \* the values the embedder may pass to Engine::set_fps
    fps,        \* Engine.fps
    tty,        \* the terminal: raw mode, alternate screen, mouse capture, cursor shown
    bounds,     \* State.bounds : Option<Rect>
    store,      \* State.entity_states : Vec<EntityState>
    slot,       \* the Mutex<Input> value shared by the two threads
    lock,       \* holder of the mutex: "free", "loop" or "sampler"
    pc,         \* position of the main thread: the builder, then Engine::init
    result,     \* how the engine ended: "running", "Ok", "OutOfBounds", "Io", "InvalidArg",
                \* "panic", "BorrowMutError" (the panic of a failed RefCell borrow)
    idx,        \* index of the outer loop of update_entities (1-based)
    tickInput,  \* the Input the current tick read from the slot
    spc,        \* position of the input thread: 0 = not spawned, else index in SamplerSteps
    pending,    \* the Input read_input returned, not yet stored
    calls,      \* history: Entity::collision / Entity::update calls of the current pass
    pre,        \* history: the store as it was when the current pass began
    unread,     \* history: values stored in the slot since the loop last reset it
    ticks,      \* history: number of update passes begun
    frames,     \* history: number of frames rendered
    fpsCall,    \* history: the last set_fps call, Some([arg, ok]), if any
    inTick      \* history: read_input last returned while the loop held the mutex

vars == <<term, build, keys, faults, fpsArgs, fps, tty, bounds, store, slot, lock, pc,
          result, idx, tickInput, spc, pending, calls, pre, unread, ticks, frames, fpsCall,
          inTick>>

-----------------------------------------------------------------------------
(* Bounds of the model *)

\* the loop runs at most this many ticks
MaxTicks == 2
\* the input thread stores at most this many values between two reads of the loop
MaxBurst == 2

-----------------------------------------------------------------------------
(* Program constants *)

FpsMin == 1
FpsMax == 30
DEFAULT_FPS == 15
X_SCALE == 2
Y_SCALE == 1
I32Max == 2147483647
I32Min == (-I32Max) - 1

\* Option<T> as a set of at most one element
None == {}
Some(v) == {v}
Unwrap(o) == CHOOSE v \in o : TRUE

\* enum Input
Inputs == {"None", "Up", "Down", "Left", "Right", "Quit"}

\* enum Rotation as its discriminant: Zero = 0, HalfPi = 1, Pi = 2, ThreeHalvesPi = 3
Rotations == 0 .. 3

\* struct Vector
Vector(x, y) == [x |-> x, y |-> y]

\* enum Update
UpdateNone == [tag |-> "None", step |-> Vector(0, 0), rotate |-> 0]
UpdateDestroy == [tag |-> "Destroy", step |-> Vector(0, 0), rotate |-> 0]
UpdateAction(step, rotate) == [tag |-> "Action", step |-> step, rotate |-> rotate]

-----------------------------------------------------------------------------
(* i32 arithmetic: the exact sum when it fits, the two's complement wrap    *)
(* otherwise.  Written so that no intermediate value leaves the i32 range.  *)

AddOverflows(a, b) ==
    \/ b > 0 /\ a > I32Max - b
    \/ b < 0 /\ a < I32Min - b

WrappingAdd(a, b) ==
    IF b > 0 /\ a > I32Max - b THEN ((a - I32Max) + (b - I32Max)) - 2
    ELSE IF b < 0 /\ a < I32Min - b THEN ((a + I32Max) + (b + I32Max)) + 2
    ELSE a + b

\* a * k for a small scale factor k >= 0, as k wrapping additions
RECURSIVE WrappingMul(_, _)
WrappingMul(a, k) == IF k = 0 THEN 0 ELSE WrappingAdd(WrappingMul(a, k - 1), a)

RECURSIVE MulOverflows(_, _)
MulOverflows(a, k) ==
    IF k = 0 THEN FALSE
    ELSE MulOverflows(a, k - 1) \/ AddOverflows(WrappingMul(a, k - 1), a)

-----------------------------------------------------------------------------
(* Rect, Position, Rotation, EntityState *)

\* ratatui Rect as terminal.size() returns it: origin (0, 0)
Rect(width, height) == [x |-> 0, y |-> 0, width |-> width, height |-> height]
Left(r) == r.x
Right(r) == r.x + r.width
Top(r) == r.y
Bottom(r) == r.y + r.height

Position(x, y) == [x |-> x, y |-> y]

\* the extent the bounds and collision tests give a sprite along each axis
ExtentX(es) == (es.sprite.width - 2) * X_SCALE
ExtentY(es) == (es.sprite.height - 2) * Y_SCALE

\* impl AddAssign for Rotation: a plausible slip, reducing modulo 3
RotationAddAssignMod3(rot, rhs) == (rot + rhs) % 3

\* impl AddAssign for Rotation
RotationAddAssign(rot, rhs) == (rot + rhs) % 4

\* the match of Rotation::add_assign reaches its panic arm
RotationAddAssignPanics(rot, rhs) == RotationAddAssign(rot, rhs) \notin Rotations

\* impl AddAssign<Vector> for Position, with wrapping arithmetic
PositionAddAssign(pos, rhs) ==
    Position(WrappingAdd(pos.x, WrappingMul(rhs.x, X_SCALE)),
             WrappingAdd(pos.y, WrappingMul(rhs.y, Y_SCALE)))

\* some operation of Position::add_assign overflows i32
PositionAddAssignOverflows(pos, rhs) ==
    \/ MulOverflows(rhs.x, X_SCALE)
    \/ AddOverflows(pos.x, WrappingMul(rhs.x, X_SCALE))
    \/ MulOverflows(rhs.y, Y_SCALE)
    \/ AddOverflows(pos.y, WrappingMul(rhs.y, Y_SCALE))

\* EntityState::overlaps with strict comparisons in place of the inclusive ones
overlapsStrict(self, other) ==
    LET s == Unwrap(self.pos)
        o == Unwrap(other.pos)
    IN  /\ s.x < WrappingAdd(o.x, ExtentX(other))
        /\ WrappingAdd(s.x, ExtentX(self)) > o.x
        /\ s.y < WrappingAdd(o.y, ExtentY(other))
        /\ WrappingAdd(s.y, ExtentY(self)) > o.y

\* EntityState::overlaps (positions present), with wrapping arithmetic
overlaps(self, other) ==
    LET s == Unwrap(self.pos)
        o == Unwrap(other.pos)
    IN  /\ s.x <= WrappingAdd(o.x, ExtentX(other))
        /\ WrappingAdd(s.x, ExtentX(self)) >= o.x
        /\ s.y <= WrappingAdd(o.y, ExtentY(other))
        /\ WrappingAdd(s.y, ExtentY(self)) >= o.y

\* an addition evaluated by EntityState::overlaps overflows i32 (&& short-circuits)
overlapsOverflows(self, other) ==
    LET s == Unwrap(self.pos)
        o == Unwrap(other.pos)
    IN  \/ AddOverflows(o.x, ExtentX(other))
        \/ /\ s.x <= WrappingAdd(o.x, ExtentX(other))
           /\ \/ AddOverflows(s.x, ExtentX(self))
              \/ /\ WrappingAdd(s.x, ExtentX(self)) >= o.x
                 /\ \/ AddOverflows(o.y, ExtentY(other))
                    \/ /\ s.y <= WrappingAdd(o.y, ExtentY(other))
                       /\ AddOverflows(s.y, ExtentY(self))

\* EntityState::within_bounds (position present), with wrapping arithmetic
within_bounds(self, b) ==
    LET s == Unwrap(self.pos)
    IN  /\ s.x > Left(b) + 1
        /\ WrappingAdd(s.x, ExtentX(self)) < Right(b) - 1
        /\ s.y >= Top(b)
        /\ WrappingAdd(s.y, ExtentY(self)) < Bottom(b)

\* an addition evaluated by EntityState::within_bounds overflows i32
within_boundsOverflows(self, b) ==
    LET s == Unwrap(self.pos)
    IN  /\ s.x > Left(b) + 1
        /\ \/ AddOverflows(s.x, ExtentX(self))
           \/ /\ WrappingAdd(s.x, ExtentX(self)) < Right(b) - 1
              /\ s.y >= Top(b)
              /\ AddOverflows(s.y, ExtentY(self))

\* f32 -> i32 cast of n / d: truncation toward zero
TruncDiv(n, d) == IF n >= 0 THEN n \div d ELSE -((-n) \div d)

\* the starting position with the half sprite left out: the sprite's corner,
\* not its middle, at the fraction of the canvas
StartPositionUncentred(es, b) ==
    LET start == Unwrap(es.entity).start
    IN  Position(
          TruncDiv((Right(b) - Left(b)) * start.x, 8),
          TruncDiv((Bottom(b) - Top(b)) * start.y, 8))

\* start_pos() returns the fractions (start.x / 8, start.y / 8), which f32
\* holds exactly, as it does every product and difference below; the position
\* set_starting_positions computes from them:
\*     (width * x - (sprite.width * X_SCALE) / 2.0) as i32, and so for y
StartPosition(es, b) ==
    LET start == Unwrap(es.entity).start
    IN  Position(
          TruncDiv((Right(b) - Left(b)) * start.x - 4 * (es.sprite.width * X_SCALE), 8),
          TruncDiv((Bottom(b) - Top(b)) * start.y - 4 * (es.sprite.height * Y_SCALE), 8))

\* State::add_entity: the record pushed for an entity
NewEntityState(id, e) ==
    [id |-> id, pos |-> None, rot |-> 0, sprite |-> e.sprite,
     entity |-> Some([kind |-> e.kind, start |-> e.start])]

-----------------------------------------------------------------------------
(* The embedder's side: entities, keyboard events, terminal sizes *)

Sprite(width, height) == [width |-> width, height |-> height]

\* steps of one cell along an axis
UnitSteps == {Vector(1, 0), Vector(-1, 0), Vector(0, 1), Vector(0, -1)}

\* a step that carries x from column 5 to i32::MAX without overflowing on the way
BigStep == Vector((I32Max - 5) \div X_SCALE, 0)

\* a step whose product with X_SCALE does not fit an i32
HugeStep == Vector(I32Max, 0)

\* the Update values an entity of each kind may return from update()
Updates(kind) ==
    CASE kind = "mover"  -> {UpdateNone, UpdateDestroy}
                              \cup {UpdateAction(s, r) : s \in UnitSteps, r \in Rotations}
      [] kind = "jumper" -> {UpdateAction(BigStep, 1), UpdateAction(HugeStep, 0)}
      [] OTHER           -> {UpdateNone, UpdateDestroy}

Entity(kind, sprite, sx, sy) == [kind |-> kind, sprite |-> sprite, start |-> Vector(sx, sy)]

\* raw terminal events crossterm::event::read can return
Events == {"q", "ctrl-c", "Up", "w", "Down", "s", "Left", "a", "Right", "d", "x", "mouse"}

\* fn read_input, applied to the event read
read_input(ev) ==
    CASE ev = "mouse"             -> "None"
      [] ev \in {"q", "ctrl-c"}   -> "Quit"
      [] ev \in {"Up", "w"}       -> "Up"
      [] ev \in {"Down", "s"}     -> "Down"
      [] ev \in {"Left", "a"}     -> "Left"
      [] ev \in {"Right", "d"}    -> "Right"
      [] OTHER                    -> "None"

\* the runs explored: a terminal, a build profile, a keyboard and the entities
\* handed to Engine::starting_entities
ScenarioWith(w, h, b, k, es, fs, fa) ==
    [term |-> [width |-> w, height |-> h], build |-> b, keys |-> k, entities |-> es,
     faults |-> fs, fpsArgs |-> fa]

\* a run in which no I/O call fails and set_fps is not called
Scenario(w, h, b, k, es) == ScenarioWith(w, h, b, k, es, {}, {})

\* the I/O calls of Engine::init that return a Result
IoCalls == {"enable_raw_mode", "execute", "Terminal::new", "size", "draw"}

\* values passed to set_fps: both ends of FPS_BOUNDS and the values around them
FpsRequests == {FpsMin - 1, FpsMin, FpsMax, FpsMax + 1}

Scenarios ==
    {   \* a mover beside a static entity, overlapping at the start
        Scenario(16, 8, "release", {"w"},
                 <<Entity("mover", Sprite(3, 3), 3, 3), Entity("static", Sprite(3, 3), 4, 4)>>),
        \* the same two, the other way round in the store
        Scenario(16, 8, "release", {"w"},
                 <<Entity("static", Sprite(3, 3), 4, 4), Entity("mover", Sprite(3, 3), 3, 3)>>),
        \* an entity that asks for a huge step, in both build profiles
        Scenario(16, 8, "release", {}, <<Entity("jumper", Sprite(3, 3), 4, 4)>>),
        Scenario(16, 8, "debug", {}, <<Entity("jumper", Sprite(3, 3), 4, 4)>>),
        \* a busy keyboard over a single static entity
        Scenario(16, 8, "release", Events, <<Entity("static", Sprite(3, 3), 4, 4)>>),
        \* the second entity starts left of the canvas
        Scenario(16, 8, "release", {},
                 <<Entity("static", Sprite(3, 3), 4, 4), Entity("static", Sprite(3, 3), 0, 4)>>),
        \* a mover in the middle of a wide canvas
        Scenario(40, 20, "release", {}, <<Entity("mover", Sprite(4, 4), 4, 4)>>),
        \* a mover that is taller than wide, near the right edge
        Scenario(17, 8, "release", {}, <<Entity("mover", Sprite(2, 4), 7, 4)>>),
        \* any I/O call may fail
        ScenarioWith(16, 8, "release", {}, <<Entity("static", Sprite(3, 3), 4, 4)>>, IoCalls, {}),
        \* the embedder configures the frame rate before init
        ScenarioWith(16, 8, "release", {}, <<Entity("static", Sprite(3, 3), 4, 4)>>, {}, FpsRequests)
    }

\* Engine::starting_entities: add_entity for each entity, in order
StartingEntities(es) == [i \in 1 .. Len(es) |-> NewEntityState(i, es[i])]

-----------------------------------------------------------------------------
(* Initial state: Engine::new().starting_entities(..), before init() runs *)

\* the terminal as the program finds it and must leave it
Restored == [raw |-> FALSE, alt |-> FALSE, mouse |-> FALSE, cursor |-> TRUE]

InitFrom(scs) ==
    \E sc \in scs :
        /\ term = sc.term
        /\ build = sc.build
        /\ keys = sc.keys
        /\ faults = sc.faults
        /\ fpsArgs = sc.fpsArgs
        /\ fps = DEFAULT_FPS
        /\ fpsCall = None
        /\ inTick = FALSE
        /\ tty = Restored
        /\ bounds = None
        /\ store = StartingEntities(sc.entities)
        /\ slot = "None"
        /\ lock = "free"
        /\ pc = "build"
        /\ result = "running"
        /\ idx = 0
        /\ tickInput = "None"
        /\ spc = 0
        /\ pending = "None"
        /\ calls = <<>>
        /\ pre = <<>>
        /\ unread = <<>>
        /\ ticks = 0
        /\ frames = 0

Init == InitFrom(Scenarios)

-----------------------------------------------------------------------------
(* The builder: Engine::set_fps *)

\* FPS_BOUNDS.contains(&v)
FpsBoundsContains(v) == FpsMin <= v /\ v <= FpsMax

\* Engine::set_fps(self, fps): the test is made on self.fps, the value the
\* engine holds, and the engine is consumed when it fails
SetFps ==
    /\ pc = "build"
    /\ \E arg \in fpsArgs :
          IF ~FpsBoundsContains(fps)
          THEN /\ pc' = "exit"
               /\ result' = "InvalidArg"
               /\ fps' = fps
               /\ fpsCall' = Some([arg |-> arg, ok |-> FALSE])
          ELSE /\ fps' = arg
               /\ fpsCall' = Some([arg |-> arg, ok |-> TRUE])
               /\ UNCHANGED <<pc, result>>
    /\ UNCHANGED <<inTick, term, build, keys, faults, fpsArgs, tty, bounds, store, slot, lock, idx,
                   tickInput, spc, pending, calls, pre, unread, ticks, frames>>

-----------------------------------------------------------------------------
(* TerminalHandle *)

\* a call that returns a Result fails or not
Outcomes(call) == IF call \in faults THEN {"ok", "err"} ELSE {"ok"}

\* TerminalHandle::drop: raw mode off, alternate screen left, mouse capture
\* off, cursor shown
DropHandle(t) == [raw |-> FALSE, alt |-> FALSE, mouse |-> FALSE, cursor |-> TRUE]

\* line 444, TerminalHandle::new()?: raw mode, then the alternate screen and
\* the mouse capture, then the Terminal; a failure after enable_raw_mode is
\* answered with disable_raw_mode alone
TerminalHandleNew ==
    /\ pc = "build"
    /\ \E raw \in Outcomes("enable_raw_mode"), exe \in Outcomes("execute"),
          new \in Outcomes("Terminal::new"), entered \in BOOLEAN :
          \/ /\ raw = "err"
             /\ tty' = tty
             /\ pc' = "exit" /\ result' = "Io"
          \/ \* execute! failed, with EnterAlternateScreen written out or not
             /\ raw = "ok" /\ exe = "err"
             /\ tty' = [tty EXCEPT !.raw = FALSE, !.alt = entered]
             /\ pc' = "exit" /\ result' = "Io"
          \/ /\ raw = "ok" /\ exe = "ok" /\ new = "err"
             /\ tty' = [tty EXCEPT !.raw = FALSE, !.alt = TRUE, !.mouse = TRUE]
             /\ pc' = "exit" /\ result' = "Io"
          \/ /\ raw = "ok" /\ exe = "ok" /\ new = "ok"
             /\ tty' = [tty EXCEPT !.raw = TRUE, !.alt = TRUE, !.mouse = TRUE]
             /\ pc' = "init" /\ result' = result
    /\ UNCHANGED <<inTick, term, build, keys, faults, fpsArgs, fps, fpsCall, bounds, store, slot, lock,
                   idx, tickInput, spc, pending, calls, pre, unread, ticks, frames>>

-----------------------------------------------------------------------------
(* Engine::init up to the loop: set_bounds, set_starting_positions, spawn *)

\* State::set_starting_positions returning Ok with no record resolved
ResolveFromNowhere(st, i, b) == [store |-> st, ok |-> TRUE]

\* State::set_starting_positions from record i on: every record without a
\* position gets one; the first record placed out of bounds ends the pass
RECURSIVE ResolveFrom(_, _, _)
ResolveFrom(st, i, b) ==
    IF i > Len(st) THEN [store |-> st, ok |-> TRUE]
    ELSE IF st[i].pos # None THEN ResolveFrom(st, i + 1, b)
    ELSE LET placed == [st EXCEPT ![i].pos = Some(StartPosition(st[i], b))]
         IN  IF within_bounds(placed[i], b)
             THEN ResolveFrom(placed, i + 1, b)
             ELSE [store |-> placed, ok |-> FALSE]

\* State::set_starting_positions with the test of the placement left out
set_starting_positionsUnchecked(st, b) ==
    [store |-> [i \in 1 .. Len(st) |->
                   IF st[i].pos # None THEN st[i]
                   ELSE [st[i] EXCEPT !.pos = Some(StartPosition(st[i], b))]],
     ok |-> TRUE]

set_starting_positions(st, b) == ResolveFrom(st, 1, b)

\* the order in which the input thread's statement
\*     *input.lock().unwrap() = read_input();
\* runs: the assigned value first, then the place, then the store and the
\* drop of the temporary guard.  Here the place evaluated first.
SamplerStepsLockFirst == <<"lock", "read", "write">>

SamplerSteps == <<"read", "lock", "write">>

\* line 447: Duration::from_secs_f32(1.0 / fps as f32) panics on the infinite
\* quotient
SleepDurationPanics(v) == v = 0

\* lines 447-462: the sleep duration, bounds from the terminal, starting
\* positions, input thread; the handle is dropped on every way out
Setup ==
    /\ pc = "init"
    /\ \E size \in Outcomes("size") :
          LET b == Rect(term.width, term.height)
              r == set_starting_positions(store, b)
          IN  IF SleepDurationPanics(fps)
              THEN /\ pc' = "exit" /\ result' = "panic"
                   /\ tty' = DropHandle(tty)
                   /\ UNCHANGED <<bounds, store, spc>>
              ELSE IF size = "err"
              THEN /\ pc' = "exit" /\ result' = "Io"
                   /\ tty' = DropHandle(tty)
                   /\ UNCHANGED <<bounds, store, spc>>
              ELSE /\ bounds' = Some(b)
                   /\ store' = r.store
                   /\ IF r.ok
                      THEN /\ pc' = "lock"
                           /\ spc' = 1
                           /\ result' = result
                           /\ tty' = tty
                      ELSE /\ pc' = "exit"
                           /\ spc' = spc
                           /\ result' = "OutOfBounds"
                           /\ tty' = DropHandle(tty)
    /\ UNCHANGED <<inTick, term, build, keys, faults, fpsArgs, fps, fpsCall, slot, lock, idx, tickInput, pending,
                   calls, pre, unread, ticks, frames>>

-----------------------------------------------------------------------------
(* The input thread: loop { *input.lock().unwrap() = read_input(); } *)

SamplerAt(step) == spc > 0 /\ SamplerSteps[spc] = step /\ result # "panic"

SamplerAdvance == spc' = (spc % Len(SamplerSteps)) + 1

\* read_input() returns: the thread was blocked in crossterm::event::read
SamplerRead ==
    /\ SamplerAt("read")
    /\ Len(unread) < MaxBurst
    /\ \E ev \in keys : pending' = read_input(ev)
    /\ inTick' = (lock = "loop")
    /\ SamplerAdvance
    /\ UNCHANGED <<term, build, keys, faults, fpsArgs, fps, fpsCall, tty, bounds, store, slot, lock, pc, result, idx,
                   tickInput, calls, pre, unread, ticks, frames>>

\* input.lock() with no mutual exclusion: the input thread goes on whoever
\* holds the mutex
SamplerLockUnguarded ==
    /\ SamplerAt("lock")
    /\ lock' = "sampler"
    /\ SamplerAdvance
    /\ UNCHANGED <<inTick, term, build, keys, faults, fpsArgs, fps, fpsCall, tty, bounds, store, slot, pc,
                   result, idx, tickInput, pending, calls, pre, unread, ticks, frames>>

\* input.lock() succeeds
SamplerLock ==
    /\ SamplerAt("lock")
    /\ lock = "free"
    /\ lock' = "sampler"
    /\ SamplerAdvance
    /\ UNCHANGED <<inTick, term, build, keys, faults, fpsArgs, fps, fpsCall, tty, bounds, store, slot, pc, result, idx,
                   tickInput, pending, calls, pre, unread, ticks, frames>>

\* what the slot holds after the input thread stores v: a slip that keeps an
\* unread value instead of overwriting it
StoreInputKeepFirst(old, v) == IF old = "None" THEN v ELSE old

\* what the slot holds after the input thread stores v
StoreInput(old, v) == v

\* the assignment through the guard, and the guard dropped
SamplerWrite ==
    /\ SamplerAt("write")
    /\ lock = "sampler"
    /\ slot' = StoreInput(slot, pending)
    /\ unread' = Append(unread, pending)
    /\ lock' = "free"
    /\ SamplerAdvance
    /\ UNCHANGED <<inTick, term, build, keys, faults, fpsArgs, fps, fpsCall, tty, bounds, store, pc, result, idx,
                   tickInput, pending, calls, pre, ticks, frames>>

-----------------------------------------------------------------------------
(* State::update_entities *)

Call(op, a, b, input, u) == [op |-> op, a |-> a, b |-> b, input |-> input, update |-> u]

\* indices j .. n, ascending: the inner iterator with its filter left out
OthersFromUnfiltered(j, n, i) == [k \in 1 .. (n + 1 - j) |-> j + k - 1]

\* indices 1 .. n without i, ascending: the filtered inner iterator
RECURSIVE OthersFrom(_, _, _)
OthersFrom(j, n, i) ==
    IF j > n THEN <<>>
    ELSE IF j = i THEN OthersFrom(j + 1, n, i)
    ELSE <<j>> \o OthersFrom(j + 1, n, i)

\* the inner loop for record i: entity.collision(other_entity) for every other
\* record that overlaps it, when both entity fields are present
RECURSIVE CollisionsOver(_, _, _)
CollisionsOver(st, i, js) ==
    IF js = <<>> THEN <<>>
    ELSE LET j == Head(js)
             here == IF /\ overlaps(st[i], st[j])
                        /\ st[i].entity # None
                        /\ st[j].entity # None
                     THEN <<Call("collision", st[i].id, st[j].id, "None", UpdateNone)>>
                     ELSE <<>>
         IN  here \o CollisionsOver(st, i, Tail(js))

CollisionCalls(st, i) == CollisionsOver(st, i, OthersFrom(1, Len(st), i))

\* RefCell::borrow_mut on record j panics when a borrow of it is outstanding
BorrowMutFails(held, j) == j \in held

\* the inner loop's borrows, one record after the other: each guard is dropped
\* at the end of its iteration, so only the outer guard stays outstanding
RECURSIVE InnerBorrowFails(_, _)
InnerBorrowFails(js, held) ==
    js # <<>> /\ (BorrowMutFails(held, Head(js)) \/ InnerBorrowFails(Tail(js), held))

\* the borrows of the iteration for record i (lines 235-244): the outer
\* borrow_mut with nothing outstanding, then the inner ones
IterationBorrowFails(st, i) ==
    BorrowMutFails({}, i) \/ InnerBorrowFails(OthersFrom(1, Len(st), i), {i})

\* a pos.expect(..) of the iteration for record i finds None: in overlaps for
\* the record and each other one, in within_bounds for the record
IterationExpectFails(st, i, u) ==
    \/ \E j \in 1 .. Len(st) : j # i /\ (st[i].pos = None \/ st[j].pos = None)
    \/ u.tag = "Action" /\ st[i].pos = None

\* the match on the Update: a slip that keeps the stepped position even when
\* it is out of bounds
ApplyUpdateNoRollback(es, u, b) ==
    CASE u.tag = "Action" ->
            [es EXCEPT !.pos = Some(PositionAddAssign(Unwrap(es.pos), u.step)),
                       !.rot = RotationAddAssign(es.rot, u.rotate)]
      [] u.tag = "Destroy" -> [es EXCEPT !.entity = None]
      [] OTHER -> es

\* the match on the Update an entity returned (lines 262-279)
ApplyUpdate(es, u, b) ==
    CASE u.tag = "Action" ->
            LET old_pos == es.pos
                moved == [es EXCEPT !.pos = Some(PositionAddAssign(Unwrap(es.pos), u.step))]
                kept == IF within_bounds(moved, b) THEN moved ELSE [moved EXCEPT !.pos = old_pos]
            IN  [kept EXCEPT !.rot = RotationAddAssign(es.rot, u.rotate)]
      [] u.tag = "Destroy" -> [es EXCEPT !.entity = None]
      [] OTHER -> es

\* the iteration for record i panics: an i32 overflow in a debug build, or the
\* unreachable arm of Rotation::add_assign
IterationPanics(st, i, u, b) ==
    \/ /\ build = "debug"
       /\ \/ \E j \in 1 .. Len(st) : j # i /\ overlapsOverflows(st[i], st[j])
          \/ /\ u.tag = "Action"
             /\ \/ PositionAddAssignOverflows(Unwrap(st[i].pos), u.step)
                \/ within_boundsOverflows(
                       [st[i] EXCEPT !.pos = Some(PositionAddAssign(Unwrap(st[i].pos), u.step))], b)
    \/ u.tag = "Action" /\ RotationAddAssignPanics(st[i].rot, u.rotate)

\* the retain at the end of the pass: a slip that keeps every record
RetainAll(st) == st

\* the retain at the end of the pass
Retain(st) == SelectSeq(st, LAMBDA es : es.entity # None)

-----------------------------------------------------------------------------
(* State::render_entities *)

\* the x_range and y_range of a record: the sprite's own for Zero and Pi,
\* exchanged for HalfPi and ThreeHalvesPi
SampleGrid(es) ==
    IF es.rot \in {0, 2}
    THEN (0 .. es.sprite.width - 1) \X (0 .. es.sprite.height - 1)
    ELSE (0 .. es.sprite.height - 1) \X (0 .. es.sprite.width - 1)

\* the match on the rotation: a slip that mirrors HalfPi the way Pi is mirrored
SampleCoordMirrored(sprite, rot, x, y) ==
    CASE rot = 0 -> <<x, y>>
      [] rot = 3 -> <<y, x>>
      [] OTHER -> <<sprite.width - x - 1, sprite.height - y - 1>>

\* the match on the rotation: the pixel of the sprite drawn for (x, y)
SampleCoord(sprite, rot, x, y) ==
    CASE rot = 0 -> <<x, y>>
      [] rot = 1 -> <<sprite.width - y - 1, sprite.height - x - 1>>
      [] rot = 2 -> <<sprite.width - x - 1, sprite.height - y - 1>>
      [] rot = 3 -> <<y, x>>

\* Sprite::get_pixel(x, y) reads the image at (x, height - y - 1): the pixel
\* exists, and no u32 subtraction went below zero
get_pixel(sprite, c) ==
    /\ 0 <= c[1] /\ c[1] < sprite.width
    /\ 0 <= c[2] /\ c[2] < sprite.height
    /\ sprite.height - c[2] - 1 >= 0

\* some pixel asked for does not exist: the image lookup panics
SamplePanics(es) ==
    \E g \in SampleGrid(es) : ~get_pixel(es.sprite, SampleCoord(es.sprite, es.rot, g[1], g[2]))

\* the canvas points a record's pixels are anchored at
RenderPoints(es) ==
    LET pos == Unwrap(es.pos)
        flat == es.rot \in {0, 2}
        xs == IF flat THEN es.sprite.width ELSE es.sprite.height
        ys == IF flat THEN es.sprite.height ELSE es.sprite.width
    IN  {Position(WrappingAdd(pos.x, x * X_SCALE), WrappingAdd(pos.y, y * Y_SCALE)) :
            x \in 0 .. xs - 1, y \in 0 .. ys - 1}

RenderOverflows(es) ==
    LET pos == Unwrap(es.pos)
        flat == es.rot \in {0, 2}
        xs == IF flat THEN es.sprite.width ELSE es.sprite.height
        ys == IF flat THEN es.sprite.height ELSE es.sprite.width
    IN  \E x \in 0 .. xs - 1, y \in 0 .. ys - 1 :
            AddOverflows(pos.x, x * X_SCALE) \/ AddOverflows(pos.y, y * Y_SCALE)

\* Painter::get_point finds the point on the canvas, whose x_bounds are
\* [0, width] and y_bounds [0, height] (get_canvas)
get_point(p, b) == p.x >= 0 /\ p.x <= b.width /\ p.y >= 0 /\ p.y <= b.height

\* render_entities returns Err(OutOfBounds)
RenderOutOfBounds(st, b) ==
    \E i \in 1 .. Len(st) : \E p \in RenderPoints(st[i]) : ~get_point(p, b)

\* render_entities panics: a pos.expect(..) that finds None, a pixel that does
\* not exist, or an i32 overflow in a debug build
RenderPanics(st) ==
    \/ \E i \in 1 .. Len(st) : st[i].pos = None
    \/ \E i \in 1 .. Len(st) : SamplePanics(st[i])
    \/ build = "debug" /\ \E i \in 1 .. Len(st) : RenderOverflows(st[i])

-----------------------------------------------------------------------------
(* The tick loop of Engine::init (lines 465-493) *)

\* input.lock(): the loop takes the mutex
TickLock ==
    /\ pc = "lock"
    /\ ticks < MaxTicks
    /\ lock = "free"
    /\ lock' = "loop"
    /\ pc' = "check"
    /\ UNCHANGED <<inTick, term, build, keys, faults, fpsArgs, fps, fpsCall, tty, bounds, store, slot, result, idx, tickInput,
                   spc, pending, calls, pre, unread, ticks, frames>>

\* the test of line 468: a slip that never sees Quit
IsQuitNever(input) == FALSE

\* the test of line 468
IsQuit(input) == input = "Quit"

\* lines 468-471: return Ok(()) on Quit, else enter update_entities(*input)
TickCheck ==
    /\ pc = "check"
    /\ tickInput' = slot
    /\ IF IsQuit(slot)
       THEN /\ pc' = "exit"
            /\ result' = "Ok"
            /\ lock' = "free"
            /\ tty' = DropHandle(tty)
            /\ UNCHANGED <<idx, pre, ticks>>
       ELSE /\ pc' = "update"
            /\ idx' = 1
            /\ pre' = store
            /\ ticks' = ticks + 1
            /\ UNCHANGED <<result, lock, tty>>
    /\ UNCHANGED <<inTick, term, build, keys, faults, fpsArgs, fps, fpsCall, bounds, store, slot, spc, pending, calls, unread, frames>>

\* one iteration of the outer loop of update_entities: the collision calls of
\* record idx, then its update and the match on what it returned
UpdateEntity ==
    /\ pc = "update"
    /\ idx <= Len(store)
    /\ LET es == store[idx]
           b == Unwrap(bounds)
           alive == es.entity # None
       IN  \E u \in (IF alive THEN Updates(Unwrap(es.entity).kind) ELSE {UpdateNone}) :
              IF IterationBorrowFails(store, idx)
              THEN /\ pc' = "exit"
                   /\ result' = "BorrowMutError"
                   /\ lock' = "free"
                   /\ tty' = DropHandle(tty)
                   /\ UNCHANGED <<store, idx, calls>>
              ELSE IF IterationExpectFails(store, idx, u) \/ IterationPanics(store, idx, u, b)
              THEN /\ pc' = "exit"
                   /\ result' = "panic"
                   /\ lock' = "free"
                   /\ tty' = DropHandle(tty)
                   /\ UNCHANGED <<store, idx, calls>>
              ELSE /\ tty' = tty
                   /\ store' = [store EXCEPT ![idx] = ApplyUpdate(es, u, b)]
                   /\ calls' = calls \o CollisionCalls(store, idx)
                                     \o (IF alive
                                         THEN <<Call("update", es.id, es.id, tickInput, u)>>
                                         ELSE <<>>)
                   /\ idx' = idx + 1
                   /\ UNCHANGED <<pc, result, lock>>
    /\ UNCHANGED <<inTick, term, build, keys, faults, fpsArgs, fps, fpsCall, bounds, slot, tickInput, spc, pending,
                   pre, unread, ticks, frames>>

\* lines 282-286: the retain, and update_entities returns Ok
Prune ==
    /\ pc = "update"
    /\ idx > Len(store)
    /\ store' = Retain(store)
    /\ pc' = "reset"
    /\ UNCHANGED <<inTick, term, build, keys, faults, fpsArgs, fps, fpsCall, tty, bounds, slot, lock, result, idx, tickInput,
                   spc, pending, calls, pre, unread, ticks, frames>>

\* what line 472 leaves in the slot: a slip that leaves the value read
ResetInputKeep(input) == input

\* what line 472 leaves in the slot
ResetInput(input) == "None"

\* lines 472-473: *input = Input::None, and the guard dropped
Reset ==
    /\ pc = "reset"
    /\ slot' = ResetInput(slot)
    /\ lock' = "free"
    /\ pc' = "draw"
    /\ calls' = <<>>
    /\ pre' = <<>>
    /\ unread' = <<>>
    /\ UNCHANGED <<inTick, term, build, keys, faults, fpsArgs, fps, fpsCall, tty, bounds, store, result, idx, tickInput,
                   spc, pending, ticks, frames>>

\* lines 475-490: terminal.draw with render_entities; draw's own error comes
\* first, then the one render_entities left in maybe_error; a frame drawn
\* leaves the cursor hidden
Draw ==
    /\ pc = "draw"
    /\ \E draw \in Outcomes("draw") :
          IF RenderPanics(store)
          THEN pc' = "exit" /\ result' = "panic" /\ frames' = frames /\ tty' = DropHandle(tty)
          ELSE IF draw = "err"
          THEN pc' = "exit" /\ result' = "Io" /\ frames' = frames /\ tty' = DropHandle(tty)
          ELSE IF RenderOutOfBounds(store, Unwrap(bounds))
          THEN pc' = "exit" /\ result' = "OutOfBounds" /\ frames' = frames /\ tty' = DropHandle(tty)
          ELSE /\ pc' = "sleep" /\ result' = result /\ frames' = frames + 1
               /\ tty' = [tty EXCEPT !.cursor = FALSE]
    /\ UNCHANGED <<inTick, term, build, keys, faults, fpsArgs, fps, fpsCall, bounds, store, slot, lock, idx, tickInput,
                   spc, pending, calls, pre, unread, ticks>>

\* line 492: thread::sleep returns
Sleep ==
    /\ pc = "sleep"
    /\ pc' = "lock"
    /\ UNCHANGED <<inTick, term, build, keys, faults, fpsArgs, fps, fpsCall, tty, bounds, store, slot, lock, result, idx, tickInput,
                   spc, pending, calls, pre, unread, ticks, frames>>

-----------------------------------------------------------------------------

Next ==
    \/ SetFps
    \/ TerminalHandleNew
    \/ Setup
    \/ SamplerRead
    \/ SamplerLock
    \/ SamplerWrite
    \/ TickLock
    \/ TickCheck
    \/ UpdateEntity
    \/ Prune
    \/ Reset
    \/ Draw
    \/ Sleep

Spec == Init /\ [][Next]_vars

-----------------------------------------------------------------------------
(* Properties *)

\* the record of st with the given id (ids are the order of registration)
Rec(st, id) == st[CHOOSE i \in 1 .. Len(st) : st[i].id = id]

\* the pass of the current tick has run to its end (the retain included)
PassDone == pc = "reset"
\* the loop is inside the critical section of a tick that was not ended by Quit
InPass == pc \in {"update", "reset"}
\* between two passes, with the starting positions set
BetweenTicks == pc \in {"lock", "check", "draw", "sleep"}

UpdateCalls == {k \in 1 .. Len(calls) : calls[k].op = "update"}
CollisionCount(a, b) ==
    Cardinality({k \in 1 .. Len(calls) :
                    calls[k].op = "collision" /\ calls[k].a = a /\ calls[k].b = b})

\* the whole scaled box of a record, from its position to position +
\* (width * X_SCALE, height * Y_SCALE), lies strictly inside the rectangle
BoxStrictlyInside(es, b) ==
    LET p == Unwrap(es.pos)
    IN  /\ p.x > Left(b)
        /\ p.x < Right(b) - es.sprite.width * X_SCALE
        /\ p.y > Top(b)
        /\ p.y < Bottom(b) - es.sprite.height * Y_SCALE

\* C1: once set_starting_positions has succeeded, and after every completed
\* pass of update_entities, the scaled box of every live entity lies strictly
\* inside the canvas bounds.
C1_BoundsInvariant ==
    (BetweenTicks \/ PassDone) =>
        \A i \in 1 .. Len(store) :
            store[i].entity # None => BoxStrictlyInside(store[i], Unwrap(bounds))

\* C2: an Action whose stepped position fails the bounds check leaves the
\* record's position as it was before the tick and still advances its rotation
\* by rotate.
C2_RollbackKeepsRotation ==
    InPass =>
        \A k \in UpdateCalls :
            LET u == calls[k].update
                before == Rec(pre, calls[k].a)
                now == Rec(store, calls[k].a)
                stepped == [before EXCEPT !.pos = Some(PositionAddAssign(Unwrap(before.pos), u.step))]
            IN  (u.tag = "Action" /\ ~within_bounds(stepped, Unwrap(bounds))) =>
                    /\ now.pos = before.pos
                    /\ now.rot = (before.rot + u.rotate) % 4

C2_Witness ==
    /\ PassDone
    /\ \E k \in UpdateCalls :
          LET u == calls[k].update
              before == Rec(pre, calls[k].a)
              now == Rec(store, calls[k].a)
              stepped == [before EXCEPT !.pos = Some(PositionAddAssign(Unwrap(before.pos), u.step))]
          IN  /\ u.tag = "Action"
              /\ u.rotate = 1
              /\ ~within_bounds(stepped, Unwrap(bounds))
              /\ now.pos = before.pos
              /\ now.rot = (before.rot + 1) % 4

Ids(st) == [i \in 1 .. Len(st) |-> st[i].id]
Destroyed(id) == \E k \in UpdateCalls : calls[k].a = id /\ calls[k].update.tag = "Destroy"
AllAlive(st) == \A i \in 1 .. Len(st) : st[i].entity # None

\* C3: a Destroy clears only the entity field and the record stays in the
\* store for the rest of the pass; the retain that ends the pass removes
\* exactly the records whose entity field is empty, so none is in the store at
\* the render or when the next pass begins.
C3_TwoPhaseDestroy ==
    /\ pc = "update" =>
          /\ Ids(store) = Ids(pre)
          /\ \A i \in 1 .. Len(store) :
                Destroyed(store[i].id) => store[i] = [pre[i] EXCEPT !.entity = None]
    /\ PassDone =>
          /\ Ids(store) = SelectSeq(Ids(pre), LAMBDA id : ~Destroyed(id))
          /\ AllAlive(store)
    /\ BetweenTicks => AllAlive(store)

C3_Witness ==
    /\ PassDone
    /\ Len(pre) = 2
    /\ Destroyed(pre[1].id)
    /\ ~Destroyed(pre[2].id)
    /\ Ids(store) = <<pre[2].id>>

\* C4: for two live entities whose records overlap when a tick begins, each
\* one's collision is invoked with the other exactly once during that tick.
C4_CollisionReciprocity ==
    PassDone =>
        \A i, j \in 1 .. Len(pre) :
            (i # j /\ pre[i].entity # None /\ pre[j].entity # None /\ overlaps(pre[i], pre[j]))
                => /\ CollisionCount(pre[i].id, pre[j].id) = 1
                   /\ CollisionCount(pre[j].id, pre[i].id) = 1

\* C5: within a tick no collision call that involves an entity comes after
\* the update call of that entity.
C5_CollisionsBeforeUpdates ==
    \A k \in 1 .. Len(calls) : \A m \in UpdateCalls :
        (calls[k].op = "collision" /\ calls[m].a \in {calls[k].a, calls[k].b}) => k < m

\* C6: the slot holds the last value the input thread stored, whatever it
\* stored before, and a tick that follows one or more stores reads that last
\* value and no earlier one.
C6_LatestWins ==
    /\ unread # <<>> => slot = unread[Len(unread)]
    /\ (InPass /\ unread # <<>>) => tickInput = unread[Len(unread)]

C6_Witness ==
    /\ InPass
    /\ Len(unread) >= 2
    /\ unread[1] \notin {"None", unread[Len(unread)]}
    /\ tickInput = unread[Len(unread)]
    /\ \E k \in UpdateCalls : calls[k].input = unread[Len(unread)]

\* C7: a tick reads the slot once, under the lock it keeps until the reset:
\* the slot still holds the value read while the pass runs, every update of
\* the pass is given that value, and once the critical section has ended the
\* slot holds None until the input thread stores again.
C7_ExactlyOncePerTick ==
    /\ InPass =>
          /\ lock = "loop"
          /\ slot = tickInput
          /\ \A k \in UpdateCalls : calls[k].input = tickInput
    /\ (BetweenTicks /\ unread = <<>>) => slot = "None"

C7_Witness ==
    /\ pc = "draw"
    /\ ticks >= 1
    /\ tickInput = "Up"
    /\ unread = <<>>
    /\ slot = "None"

\* C8: no update pass runs on a Quit; the loop that reads Quit returns Ok at
\* that read, leaving the store, the calls and the frames as they were, and
\* nothing of them changes once init has returned.
C8_QuitTerminates ==
    /\ [](InPass => tickInput # "Quit")
    /\ [][(pc = "check" /\ slot = "Quit" /\ pc' # pc) =>
              (pc' = "exit" /\ result' = "Ok" /\ UNCHANGED <<store, calls, ticks, frames>>)]_vars
    /\ [][pc = "exit" => (pc' = "exit" /\ UNCHANGED <<store, calls, ticks, frames, result>>)]_vars

C8_Witness ==
    /\ pc = "exit"
    /\ result = "Ok"
    /\ tickInput = "Quit"
    /\ ticks = 1
    /\ frames = 1
    /\ calls = <<>>

\* C9: the mutex has one holder at a time; the input thread does not hold it
\* while it is blocked in read_input, and the loop does not hold it during the
\* draw or the sleep.
C9_LockNotHeldWhileBlocked ==
    /\ SamplerAt("read") => lock # "sampler"
    /\ pc \in {"build", "init", "lock", "draw", "sleep", "exit"} => lock # "loop"
    /\ lock = "sampler" => (SamplerAt("write") /\ pc \notin {"check", "update", "reset"})
    /\ lock = "loop" => (pc \in {"check", "update", "reset"} /\ ~SamplerAt("write"))

C9_Witness ==
    /\ pc = "sleep"
    /\ SamplerAt("write")
    /\ lock = "sampler"
    /\ ticks >= 1

\* C10: rot += delta gives (rot + delta) mod 4 for every rotation and delta,
\* never reaching the panic arm, in every update the pass applies; four
\* quarter turns bring every rotation back to itself.
C10_RotationModularLaw ==
    /\ \A r \in Rotations, d \in Rotations :
          RotationAddAssign(r, d) \in Rotations /\ ~RotationAddAssignPanics(r, d)
    /\ \A r \in Rotations :
          RotationAddAssign(RotationAddAssign(RotationAddAssign(RotationAddAssign(r, 1), 1), 1), 1) = r
    /\ InPass =>
          \A k \in UpdateCalls :
              calls[k].update.tag = "Action" =>
                  Rec(store, calls[k].a).rot
                      = (Rec(pre, calls[k].a).rot + calls[k].update.rotate) % 4

C10_Witness ==
    /\ InPass
    /\ \E k \in UpdateCalls :
          /\ calls[k].update.tag = "Action"
          /\ calls[k].update.rotate = 3
          /\ Rec(pre, calls[k].a).rot = 2
          /\ Rec(store, calls[k].a).rot = 1

\* C11: set_fps rejects with InvalidArg every requested value outside 1..=30,
\* leaving no engine configured with it, and accepts every value inside,
\* storing it as the engine's frame rate.
C11_SetFpsValidates ==
    /\ fps \in 1 .. 30
    /\ \A c \in fpsCall :
          /\ c.ok <=> c.arg \in 1 .. 30
          /\ c.ok => fps = c.arg
          /\ ~c.ok => result = "InvalidArg"

\* C12: on every way out of Engine::init once terminal setup has begun (Quit, a
\* failed step of TerminalHandle::new, OutOfBounds from the starting positions,
\* an I/O error of the draw, OutOfBounds from the render) the terminal is fully
\* restored when the result is returned: raw mode off, alternate screen left,
\* mouse capture off, cursor shown.
C12_TerminalRestoredOnExit ==
    (pc = "exit" /\ result \in {"Ok", "Io", "OutOfBounds"}) =>
        (~tty.raw /\ ~tty.alt /\ ~tty.mouse /\ tty.cursor)

\* q is n / 8 with the fraction dropped, as the cast from f32 to i32 drops it
IsTruncatedEighths(n, q) ==
    \/ n >= 0 /\ 8 * q <= n /\ n < 8 * q + 8
    \/ n < 0 /\ 8 * q >= n /\ n > 8 * q - 8

\* p is the placement the starting fractions of es ask for on canvas b
IsStartPlacement(p, es, b) ==
    LET start == Unwrap(es.entity).start
    IN  /\ IsTruncatedEighths(b.width * start.x - 4 * es.sprite.width * X_SCALE, p.x)
        /\ IsTruncatedEighths(b.height * start.y - 4 * es.sprite.height * Y_SCALE, p.y)

\* set_starting_positions has returned Ok and no tick has begun
StartResolved == pc = "lock" /\ ticks = 0

\* C13: set_starting_positions sets every unresolved record to
\* (bounds_width * start_x - sprite_width * X_SCALE / 2,
\*  bounds_height * start_y - sprite_height * Y_SCALE / 2), truncated; on a
\* 40x20 canvas a 4x4 sprite starting at (0.5, 0.5) lands at (16, 8); a record
\* whose position is set is left as it is.
C13_StartingPositions ==
    /\ StartResolved =>
          \A i \in 1 .. Len(store) :
             /\ store[i].pos # None
             /\ IsStartPlacement(Unwrap(store[i].pos), store[i], Unwrap(bounds))
             /\ ( /\ Unwrap(bounds) = Rect(40, 20)
                  /\ store[i].sprite = Sprite(4, 4)
                  /\ Unwrap(store[i].entity).start = Vector(4, 4) )
                => Unwrap(store[i].pos) = Position(16, 8)
    /\ bounds # None =>
          \A i \in 1 .. Len(store) :
             store[i].pos # None =>
                set_starting_positions(store, Unwrap(bounds)).store[i] = store[i]

C13_Witness ==
    /\ StartResolved
    /\ Unwrap(bounds) = Rect(40, 20)
    /\ store[1].sprite = Sprite(4, 4)
    /\ store[1].pos = Some(Position(16, 8))

\* placements at the very edge of the canvas
EdgeScenarios ==
    {   \* accepted with the sprite's box on the top edge
        Scenario(16, 8, "release", {}, <<Entity("static", Sprite(3, 3), 4, 2)>>),
        \* accepted with the sprite's box reaching the right edge
        Scenario(16, 8, "release", {}, <<Entity("static", Sprite(3, 3), 7, 4)>>),
        \* refused at column 1, with the sprite's box inside the canvas
        Scenario(16, 8, "release", {},
                 <<Entity("static", Sprite(3, 3), 2, 4), Entity("static", Sprite(3, 3), 4, 4)>>)
    }

InitEdge == InitFrom(Scenarios \cup EdgeScenarios)

SpecEdge == InitEdge /\ [][Next]_vars

\* the test made on a placement, in plain integers: right of the first two
\* columns and left of the last, not above the top and above the bottom, with
\* two cells less than the sprite's size as its extent
PassesPlacementTest(p, sprite, b) ==
    /\ p.x > 1
    /\ p.x + (sprite.width - 2) * X_SCALE < b.width - 1
    /\ p.y >= 0
    /\ p.y + (sprite.height - 2) * Y_SCALE < b.height

\* the placement of record i on canvas b
PlacementOf(st, i, b) ==
    LET start == Unwrap(st[i].entity).start
    IN  Position(TruncDiv(b.width * start.x - 4 * st[i].sprite.width * X_SCALE, 8),
                 TruncDiv(b.height * start.y - 4 * st[i].sprite.height * Y_SCALE, 8))

\* Engine::init returned the error of set_starting_positions
StartRefused == pc = "exit" /\ result = "OutOfBounds" /\ ticks = 0

PlacedPairs ==
    {pr \in (1 .. Len(store)) \X (1 .. Len(store)) :
        pr[1] # pr[2] /\ store[pr[1]].pos # None /\ store[pr[2]].pos # None}

\* the record's position is a point of the canvas
OnCanvas(es, b) ==
    LET p == Unwrap(es.pos)
    IN  0 <= p.x /\ p.x <= b.width /\ 0 <= p.y /\ p.y <= b.height

\* the boxes from each position over the sprite's size less two cells, scaled,
\* intersect or touch
ReducedBoxesMeet(a, c) ==
    LET p == Unwrap(a.pos)
        q == Unwrap(c.pos)
    IN  /\ p.x <= q.x + (c.sprite.width - 2) * X_SCALE
        /\ q.x <= p.x + (a.sprite.width - 2) * X_SCALE
        /\ p.y <= q.y + (c.sprite.height - 2) * Y_SCALE
        /\ q.y <= p.y + (a.sprite.height - 2) * Y_SCALE

\* the boxes from each position over the sprite's whole scaled size share
\* interior area
FullBoxesShareInterior(a, c) ==
    LET p == Unwrap(a.pos)
        q == Unwrap(c.pos)
    IN  /\ p.x < q.x + c.sprite.width * X_SCALE
        /\ q.x < p.x + a.sprite.width * X_SCALE
        /\ p.y < q.y + c.sprite.height * Y_SCALE
        /\ q.y < p.y + a.sprite.height * Y_SCALE

\* C15 as amended: the collision test is an inclusive comparison of the boxes
\* reduced by two cells: for records on the canvas it is true exactly when
\* those boxes intersect or touch, and it is symmetric.
C15_OverlapIsInclusiveReduced ==
    \A pr \in PlacedPairs :
        LET a == store[pr[1]]
            c == store[pr[2]]
        IN  /\ overlaps(a, c) <=> overlaps(c, a)
            /\ (OnCanvas(a, Unwrap(bounds)) /\ OnCanvas(c, Unwrap(bounds))) =>
                  (overlaps(a, c) <=> ReducedBoxesMeet(a, c))

\* two records whose reduced boxes touch along an edge and no more
C15_Witness ==
    \E pr \in PlacedPairs :
        LET a == store[pr[1]]
            c == store[pr[2]]
        IN  /\ overlaps(a, c)
            /\ Unwrap(a.pos).x + (a.sprite.width - 2) * X_SCALE = Unwrap(c.pos).x
            /\ ticks = 1

\* C15: the collision test is a strict overlap of the boxes from each position
\* over the full scaled extent (width * X_SCALE, height * Y_SCALE): true
\* exactly when the boxes share interior area, false when they only touch, and
\* symmetric.
C15_OverlapIsStrictFullBox ==
    \A pr \in PlacedPairs :
        LET a == store[pr[1]]
            c == store[pr[2]]
        IN  /\ overlaps(a, c) <=> overlaps(c, a)
            /\ overlaps(a, c) <=> FullBoxesShareInterior(a, c)

\* d is step * scale, said without forming the product
IsScaledStep(d, step, scale) == d % scale = 0 /\ d \div scale = step

\* the Action of update call k was accepted: the stepped position passed
\* within_bounds
Accepted(k) ==
    LET old == Rec(pre, calls[k].a)
    IN  /\ calls[k].update.tag = "Action"
        /\ within_bounds([old EXCEPT !.pos = Some(PositionAddAssign(Unwrap(old.pos), calls[k].update.step))],
                         Unwrap(bounds))

\* C16: an accepted Action{step, rotate} moves the record to its old position
\* plus (step.x * X_SCALE, step.y * Y_SCALE): from (16, 8) a step of (1, 0)
\* leads to (18, 8) and a step of (0, 1) to (16, 9); the position and rotation
\* of every other record stay as they were.
C16_AcceptedActionMoves ==
    InPass =>
        /\ \A k \in UpdateCalls :
              Accepted(k) =>
                 LET old == Unwrap(Rec(pre, calls[k].a).pos)
                     now == Unwrap(Rec(store, calls[k].a).pos)
                     step == calls[k].update.step
                 IN  /\ IsScaledStep(now.x - old.x, step.x, X_SCALE)
                     /\ IsScaledStep(now.y - old.y, step.y, Y_SCALE)
                     /\ (old = Position(16, 8) /\ step = Vector(1, 0)) => now = Position(18, 8)
                     /\ (old = Position(16, 8) /\ step = Vector(0, 1)) => now = Position(16, 9)
        /\ \A i \in 1 .. Len(store) :
              (\A k \in UpdateCalls : calls[k].a # store[i].id) =>
                 /\ store[i].pos = Rec(pre, store[i].id).pos
                 /\ store[i].rot = Rec(pre, store[i].id).rot

\* C17: the run-time borrow checks of the collision and update pass always
\* pass: no record is mutably borrowed while another borrow of it is
\* outstanding, so the pass never panics on a borrow conflict, and no entity
\* is told of a collision with itself.
C17_BorrowsNeverConflict ==
    /\ result # "BorrowMutError"
    /\ (pc = "update" /\ idx <= Len(store)) => ~IterationBorrowFails(store, idx)
    /\ \A k \in 1 .. Len(calls) : calls[k].op = "collision" => calls[k].a # calls[k].b

C17_Witness ==
    /\ PassDone
    /\ Len(pre) = 2
    /\ CollisionCount(1, 2) >= 1
    /\ CollisionCount(2, 1) >= 1
    /\ result = "running"

\* C18: the renderer iterates a width x height grid for rotations 0 and 180
\* and a height x width grid for 90 and 270, and samples the sprite at
\* (px, py), (width - py - 1, height - px - 1), (width - px - 1, height - py - 1)
\* and (py, px) for 0, 90, 180 and 270; every sample lies inside the sprite
\* and no unsigned subtraction goes below zero, whatever the sprite's size.
C18_SamplesInsideSprite ==
    \A i \in 1 .. Len(store) :
        LET es == store[i]
            w == es.sprite.width
            h == es.sprite.height
            grid == SampleGrid(es)
        IN  /\ es.rot \in {0, 2} => grid = (0 .. w - 1) \X (0 .. h - 1)
            /\ es.rot \in {1, 3} => grid = (0 .. h - 1) \X (0 .. w - 1)
            /\ \A g \in grid :
                  LET px == g[1]
                      py == g[2]
                      c == SampleCoord(es.sprite, es.rot, px, py)
                  IN  /\ es.rot = 0 => c = <<px, py>>
                      /\ es.rot = 1 => (c = <<w - py - 1, h - px - 1>> /\ w - py >= 1 /\ h - px >= 1)
                      /\ es.rot = 2 => (c = <<w - px - 1, h - py - 1>> /\ w - px >= 1 /\ h - py >= 1)
                      /\ es.rot = 3 => c = <<py, px>>
                      /\ c[1] \in 0 .. w - 1
                      /\ c[2] \in 0 .. h - 1
                      /\ get_pixel(es.sprite, c)

\* a sprite taller than wide is drawn turned by a quarter
C18_Witness ==
    /\ pc = "sleep"
    /\ frames = 2
    /\ \E i \in 1 .. Len(store) :
          /\ store[i].sprite = Sprite(2, 4)
          /\ store[i].rot = 1

\* C19: once set_starting_positions has succeeded, whatever the inputs, steps,
\* rotations and sprite sizes of the ticks that follow, render_entities paints
\* only inside the canvas and never returns OutOfBounds.
C19_RenderNeverFails ==
    /\ pc = "draw" =>
          \A i \in 1 .. Len(store) : \A p \in RenderPoints(store[i]) :
             /\ 0 <= p.x /\ p.x <= Unwrap(bounds).width
             /\ 0 <= p.y /\ p.y <= Unwrap(bounds).height
    /\ result = "OutOfBounds" => ticks = 0

AllPlaced(st) == \A i \in 1 .. Len(st) : st[i].pos # None

\* C20: when a pass of update_entities begins and at every render, every
\* record in the store has its entity present and its position resolved; the
\* position lookups of the pass and of the render never find it unset, and no
\* record without an entity is rendered.
C20_RecordsComplete ==
    /\ (pc = "update" /\ idx = 1) => (AllAlive(store) /\ AllPlaced(store))
    /\ pc = "draw" => (AllAlive(store) /\ AllPlaced(store))
    /\ pc \in {"lock", "check", "update", "reset", "draw", "sleep"} => AllPlaced(store)
    /\ (pc = "update" /\ idx <= Len(store)) =>
          \A u \in {UpdateNone, UpdateDestroy, UpdateAction(Vector(0, 0), 0)} :
             ~IterationExpectFails(store, idx, u)

\* the second pass begins after the first one destroyed and removed a record
C20_Witness ==
    /\ pc = "update"
    /\ idx = 1
    /\ ticks = 2
    /\ frames = 1
    /\ Len(store) = 1
    /\ store[1].id = 2

\* the loop is between its input.lock() and the drop of the guard
InCriticalSection == pc \in {"check", "update", "reset"}

\* C21: the loop's reset never erases an unread input.  The input thread
\* stores only while the loop is outside its critical section, so a value
\* produced while a tick is inside is stored after that tick's reset; the tick
\* that follows one or more stores reads the last of them; and the reset
\* erases nothing but the value its own tick read, every store before it being
\* either that value or overwritten by a later store.
C21_ResetErasesNoUnreadInput ==
    /\ [][(unread' # unread /\ unread' # <<>>) =>
              /\ ~InCriticalSection
              /\ pc' = pc
              /\ unread' = Append(unread, pending)
              /\ slot' = pending]_vars
    /\ [][(pc = "check" /\ pc' = "update" /\ unread # <<>>) =>
              tickInput' = unread[Len(unread)]]_vars
    /\ [][(pc = "reset" /\ pc' = "draw") =>
              /\ slot = tickInput
              /\ unread # <<>> => unread[Len(unread)] = tickInput
              /\ unread' = <<>>]_vars

\* the second tick reads a value that read_input returned while the first
\* tick held the mutex and that was stored after the first tick's reset
C21_Witness ==
    /\ pc = "update"
    /\ idx = 1
    /\ ticks = 2
    /\ inTick
    /\ SamplerAt("read")
    /\ unread = <<"Up">>
    /\ tickInput = "Up"
    /\ slot = "Up"

=============================================================================
